---- MODULE Spec2Model ----
(***************************************************************************)
(* Model of the SNS domain vault program (programs/solana-program/src/     *)
(* lib.rs).  One instruction runs at a time as a unit of work: an entry    *)
(* action validates the accounts of the instruction (the #[derive(Accounts)]*)
(* struct), one action per cross-program call follows, and a last action   *)
(* updates domains_count and commits.  Any error restores the ledger that   *)
(* was captured when the instruction started (the host reverts a failed    *)
(* transaction as a whole).                                                 *)
(***************************************************************************)
EXTENDS Integers, Sequences, FiniteSets, TLC

VARIABLES vaults, ata, nameOwner, records, tx, snap, last, net, direct

vars == <<vaults, ata, nameOwner, records, tx, snap, last, net, direct>>

ledger == <<vaults, ata, nameOwner, records>>

(***************************************************************************)
(* Bounds of the model.                                                    *)
(***************************************************************************)
\* number of unwrapped domains (name accounts) of the registry
NumNames == 3
\* domains_count is a u64; the model keeps the width as a bound so that the
\* checked_add guard is reachable: CounterMax stands for u64::MAX.
CounterMax == 2

\* number of transfers users make to vaults directly at the external services
MaxDirect == 1

\* highest bump seed tried by find_program_address
MAX_BUMP == 255

\* two users, so that a caller can target a vault that is not its own
Users == {1, 2}
\* one tokenized domain (mint)
Mints == {1}
Names == 1..NumNames
\* the names users send to a vault directly, at the name service
DirectNames == {NumNames}

(***************************************************************************)
(* Identities.  Every public key is a triple <<kind, id, bump>>.           *)
(***************************************************************************)
NullKey == <<"none", 0, 0>>
UserKey(u) == <<"user", u, 0>>
UserKeys == {UserKey(u) : u \in Users}

\* Whether the hash of (VAULT_SEED, owner, bump) lands on the curve; such a
\* candidate is no program address.  An arbitrary fixed predicate stands for
\* the hash: it makes the canonical bump differ between owners.
OnCurve(ownerKey, bump) == (2 * ownerKey[2] + bump) % 257 = 0

\* Pubkey::create_program_address(&[VAULT_SEED, owner, &[bump]], program_id);
\* NullKey stands for the error result.  The address is injective in its seeds.
CreateProgramAddress(ownerKey, bump) ==
    IF OnCurve(ownerKey, bump) THEN NullKey ELSE <<"vault", ownerKey[2], bump>>

\* Pubkey::find_program_address(&[VAULT_SEED, owner], program_id): the bumps
\* are tried from MAX_BUMP down, the first whose candidate is off the curve is
\* the bump found.
RECURSIVE TryBump(_, _)
TryBump(ownerKey, b) ==
    IF b = 0 \/ ~OnCurve(ownerKey, b) THEN b ELSE TryBump(ownerKey, b - 1)

FindBump(ownerKey) == TryBump(ownerKey, MAX_BUMP)

FindProgramAddress(ownerKey) == CreateProgramAddress(ownerKey, FindBump(ownerKey))

VaultKeys == {FindProgramAddress(k) : k \in UserKeys}
AuthKeys == UserKeys \cup VaultKeys

\* the user who holds mint m / owns name n before any deposit
InitialHolder(i) == UserKey(IF i % 2 = 1 THEN 1 ELSE 2)

(***************************************************************************)
(* Accounts.                                                               *)
(***************************************************************************)
\* a vault address that holds no UserVault account
NoVault == [init |-> FALSE, owner |-> NullKey, bump |-> 0, domains_count |-> 0]

\* balance of a token account that does not exist
NoAccount == -1

NoRecord == [exists |-> FALSE, content |-> NullKey, roaId |-> NullKey, status |-> "unset"]

NoSnap == <<>>

NoLast == [op |-> "none", asset |-> 0, vault |-> NullKey, pre |-> 0]

IdleTx == [pc |-> "idle", op |-> "none", caller |-> NullKey, vault |-> NullKey,
           asset |-> 0, err |-> "Ok", calls |-> <<>>]

Init ==
    /\ vaults = [v \in VaultKeys |-> NoVault]
    /\ ata = [a \in Mints \X AuthKeys |->
                 IF a[2] = InitialHolder(a[1]) THEN 1 ELSE NoAccount]
    /\ nameOwner = [n \in Names |-> InitialHolder(n)]
    /\ records = [n \in Names |-> NoRecord]
    /\ tx = IdleTx
    /\ snap = NoSnap
    /\ last = NoLast
    /\ net = [v \in VaultKeys |-> 0]
    /\ direct = [v \in VaultKeys |-> 0]


(***************************************************************************)
(* External services, at their interface.  Each returns [ret, st]: the     *)
(* error code ("Ok" on success) and the state of the service afterwards.   *)
(***************************************************************************)
\* the error a service returns when it fails for a reason of its own
ServiceFault == "ServiceFault"

\* Token service, transfer_checked(from, to, authority, mint, 1, 0).  A token
\* account is the pair <<mint, authority>> (the associated token account).
TokenTransferChecked(st, from, to, authority, signers, amount, fault) ==
    IF fault THEN [ret |-> ServiceFault, st |-> st]
    ELSE IF authority \notin signers
        THEN [ret |-> "MissingRequiredSignature", st |-> st]
    ELSE IF st[from] = NoAccount \/ st[to] = NoAccount \/ from[1] # to[1]
        THEN [ret |-> "InvalidAccountData", st |-> st]
    ELSE IF from[2] # authority THEN [ret |-> "OwnerMismatch", st |-> st]
    ELSE IF st[from] < amount THEN [ret |-> "InsufficientFunds", st |-> st]
    ELSE [ret |-> "Ok",
          st |-> [st EXCEPT ![from] = @ - amount, ![to] = st[to] + amount]]

\* Associated token service, create(payer, associated_token, authority, mint).
AssociatedTokenCreate(st, mint, authority, payer, signers) ==
    IF payer \notin signers THEN [ret |-> "MissingRequiredSignature", st |-> st]
    ELSE IF st[<<mint, authority>>] # NoAccount
        THEN [ret |-> "IllegalOwner", st |-> st]
    ELSE [ret |-> "Ok", st |-> [st EXCEPT ![<<mint, authority>>] = 0]]

\* Name service, Transfer: the current owner signs, the payload names the new one.
NameServiceTransfer(st, name, newOwner, currentOwner, signers, fault) ==
    IF fault THEN [ret |-> ServiceFault, st |-> st]
    ELSE IF currentOwner \notin signers
        THEN [ret |-> "MissingRequiredSignature", st |-> st]
    ELSE IF st[name] # currentOwner THEN [ret |-> "IllegalOwner", st |-> st]
    ELSE [ret |-> "Ok", st |-> [st EXCEPT ![name] = newOwner]]

\* Records service, allocateAndPostRecord: the domain owner and the fee payer
\* sign; the record gets its content and no association yet.
RecordsAllocateAndPost(st, owners, name, feePayer, domainOwner, content, signers, fault) ==
    IF fault THEN [ret |-> ServiceFault, st |-> st]
    ELSE IF feePayer \notin signers \/ domainOwner \notin signers
        THEN [ret |-> "MissingRequiredSignature", st |-> st]
    ELSE IF owners[name] # domainOwner THEN [ret |-> "IllegalOwner", st |-> st]
    ELSE [ret |-> "Ok",
          st |-> [st EXCEPT ![name] = [exists |-> TRUE, content |-> content,
                                       roaId |-> NullKey, status |-> "unset"]]]

\* Records service, writeRoa: records the association id, not yet verified.
RecordsWriteRoa(st, owners, name, feePayer, domainOwner, roaId, signers, fault) ==
    IF fault THEN [ret |-> ServiceFault, st |-> st]
    ELSE IF feePayer \notin signers \/ domainOwner \notin signers
        THEN [ret |-> "MissingRequiredSignature", st |-> st]
    ELSE IF owners[name] # domainOwner THEN [ret |-> "IllegalOwner", st |-> st]
    ELSE IF ~st[name].exists THEN [ret |-> "UninitializedAccount", st |-> st]
    ELSE [ret |-> "Ok",
          st |-> [st EXCEPT ![name].roaId = roaId,
                            ![name].status = "unverified-pending"]]

\* Records service, validateSolanaSignature(staleness): the verifier signs and
\* must be the stored association id; the domain owner named must be current.
RecordsValidate(st, owners, name, feePayer, domainOwner, verifier, signers, fault) ==
    IF fault THEN [ret |-> ServiceFault, st |-> st]
    ELSE IF feePayer \notin signers \/ verifier \notin signers
        THEN [ret |-> "MissingRequiredSignature", st |-> st]
    ELSE IF ~st[name].exists THEN [ret |-> "UninitializedAccount", st |-> st]
    ELSE IF owners[name] # domainOwner THEN [ret |-> "IllegalOwner", st |-> st]
    ELSE IF st[name].status = "unset" \/ st[name].roaId # verifier
        THEN [ret |-> "InvalidVerifier", st |-> st]
    ELSE [ret |-> "Ok", st |-> [st EXCEPT ![name].status = "verified"]]

\* System service, create_account / allocate of the vault account by `init`.
SystemCreateAccount(st, address, payer, signers) ==
    IF payer \notin signers \/ address \notin signers
        THEN [ret |-> "MissingRequiredSignature", st |-> st]
    ELSE IF st[address].init THEN [ret |-> "AccountAlreadyInUse", st |-> st]
    ELSE [ret |-> "Ok", st |-> st]

\* one entry of the log of cross-program calls of the instruction in flight:
\* the call, the account list and the payload of its instruction, the keys
\* that sign it (transaction signers and signer seeds) and what it returned
Call(ix, accounts, data, signers, ret) ==
    [ix |-> ix, accounts |-> accounts, data |-> data, signers |-> signers, ret |-> ret]

\* the keys a program may sign for with invoke_signed: the address its seeds
\* [VAULT_SEED, owner_key, bump] derive
SignerSeeds(ownerKey, bump) == {CreateProgramAddress(ownerKey, bump)} \ {NullKey}


(***************************************************************************)
(* Addresses of the accounts an instruction names, and their bytes.        *)
(***************************************************************************)
\* a public key is 32 bytes
PUBKEY_BYTES == 32

SYSTEM_PROGRAM_ID == <<"program", 0, 0>>
NAME_SERVICE_PROGRAM_ID == <<"program", 1, 0>>
SNS_RECORDS_PROGRAM_ID == <<"program", 2, 0>>

\* the name account of domain n, the mint m, the associated token account of
\* (mint, authority)
NameAccountKey(n) == <<"name", n, 0>>
MintKey(m) == <<"mint", m, 0>>
TokenAccountKey(m, authority) ==
    <<IF authority[1] = "vault" THEN "vault_token_account" ELSE "user_token_account",
      authority[2], m>>

\* get_central_state_key / get_sol_record_v2_key: the addresses the records
\* service derives for its central state and for the SOL record of a domain
get_central_state_key == <<"central_state", 0, 0>>
get_sol_record_v2_key(n) == <<"sol_record_v2", n, 0>>

\* Pubkey::to_bytes / as_ref: byte 1 tells the kind of key, bytes 2 and 3 its
\* id and bump, the others are 0; and the key a service reads back from them
Kinds == <<"none", "user", "vault", "program", "name", "mint", "central_state",
           "sol_record_v2", "vault_token_account", "user_token_account">>
ToBytes(k) ==
    [i \in 1..PUBKEY_BYTES |->
        IF i = 1 THEN CHOOSE j \in 1..Len(Kinds) : Kinds[j] = k[1]
        ELSE IF i = 2 THEN k[2]
        ELSE IF i = 3 THEN k[3]
        ELSE 0]
FromBytes(b) ==
    IF Len(b) = PUBKEY_BYTES /\ b[1] \in 1..Len(Kinds)
    THEN <<Kinds[b[1]], b[2], b[3]>>
    ELSE NullKey

\* u32::to_le_bytes, and the number a service reads back from the four bytes
U32ToLeBytes(n) ==
    <<n % 256, (n \div 256) % 256, (n \div 65536) % 256, (n \div 16777216) % 256>>
U32FromLeBytes(b) == b[1] + 256 * b[2] + 65536 * b[3] + 16777216 * b[4]

\* AccountMeta::new(pubkey, is_signer) is writable, new_readonly is not
AccountMetaNew(pubkey, is_signer) ==
    [pubkey |-> pubkey, is_signer |-> is_signer, is_writable |-> TRUE]
AccountMetaNewReadonly(pubkey, is_signer) ==
    [pubkey |-> pubkey, is_signer |-> is_signer, is_writable |-> FALSE]

Instruction(program_id, accounts, data) ==
    [program_id |-> program_id, accounts |-> accounts, data |-> data]

\* the keys an instruction presents as signers
SignerKeys(ix) ==
    {ix.accounts[i].pubkey : i \in {j \in 1..Len(ix.accounts) : ix.accounts[j].is_signer}}

\* invoke / invoke_signed: the runtime refuses an instruction that presents as
\* signer a key that neither signed the transaction nor is derived from the
\* signer seeds; otherwise the service processes it, seeing as signers the
\* keys the instruction presents
Invoke(ix, signers, st, processed) ==
    IF ~(SignerKeys(ix) \subseteq signers)
    THEN [ret |-> "PrivilegeEscalation", st |-> st]
    ELSE processed

\* Name service, at its entry point: opcode 2 is Transfer, the payload carries
\* the new owner, the accounts are the name account and its current owner.
NameServiceProcess(st, ix, fault) ==
    IF Len(ix.data) # 1 + PUBKEY_BYTES \/ ix.data[1] # 2 \/ Len(ix.accounts) # 2
    THEN [ret |-> "InvalidInstructionData", st |-> st]
    ELSE NameServiceTransfer(st, ix.accounts[1].pubkey[2],
                             FromBytes(SubSeq(ix.data, 2, 1 + PUBKEY_BYTES)),
                             ix.accounts[2].pubkey, SignerKeys(ix), fault)

\* the length-prefixed field of a records payload that starts at byte i
FieldLen(data, i) == U32FromLeBytes(SubSeq(data, i, i + 3))
Field(data, i) == SubSeq(data, i + 4, i + 3 + FieldLen(data, i))

\* Records service, at its entry point: tag 1 allocateAndPostRecord, tag 6
\* writeRoa, tag 3 validateSolanaSignature.  Accounts: system, name service,
\* fee payer, record, domain, domain owner, central state (, verifier).
RecordsProcess(st, owners, ix, fault) ==
    LET a == ix.accounts
        d == ix.data
    IN IF Len(a) < 7 \/ Len(d) < 2
          \/ a[4].pubkey # get_sol_record_v2_key(a[5].pubkey[2])
          \/ a[7].pubkey # get_central_state_key
       THEN [ret |-> "InvalidInstructionData", st |-> st]
       ELSE IF d[1] = 1 /\ Len(d) >= 9
       THEN RecordsAllocateAndPost(st, owners, a[5].pubkey[2], a[3].pubkey, a[6].pubkey,
                                   FromBytes(Field(d, 6 + FieldLen(d, 2))),
                                   SignerKeys(ix), fault)
       ELSE IF d[1] = 6 /\ Len(d) >= 5
       THEN RecordsWriteRoa(st, owners, a[5].pubkey[2], a[3].pubkey, a[6].pubkey,
                            FromBytes(Field(d, 2)), SignerKeys(ix), fault)
       ELSE IF d[1] = 3 /\ Len(a) = 8 /\ a[8].is_signer
       THEN RecordsValidate(st, owners, a[5].pubkey[2], a[3].pubkey, a[6].pubkey,
                            a[8].pubkey, SignerKeys(ix), fault)
       ELSE [ret |-> "InvalidInstructionData", st |-> st]

(***************************************************************************)
(* Account validation (the #[derive(Accounts)] structs).  The accounts are *)
(* deserialized in field order, then the init / init_if_needed accounts    *)
(* are created, then the constraints of the other accounts are checked.    *)
(* Each returns [err, ata, calls]: the first error ("Ok" if none), the     *)
(* token accounts after any creation, and the calls issued.                *)
(***************************************************************************)
\* mutant: the vault account is taken without checking that it is initialized
MutAccountUserVaultUnchecked(v) == "Ok"

\* Account<'info, UserVault>: the address must hold a UserVault account
AccountUserVault(v) ==
    IF vaults[v].init THEN "Ok" ELSE "AccountNotInitialized"

\* InterfaceAccount<'info, TokenAccount>: the token account must exist
AccountTokenAccount(mint, authority) ==
    IF ata[<<mint, authority>>] # NoAccount THEN "Ok" ELSE "AccountNotInitialized"

\* mutant: the seeds are taken from the owner the vault stores, has_one is missing
MutVaultConstraintsStoredOwner(c, v) ==
    IF CreateProgramAddress(vaults[v].owner, vaults[v].bump) # v THEN "ConstraintSeeds"
    ELSE "Ok"

\* seeds = [VAULT_SEED, owner.key().as_ref()], bump = vault.bump,
\* has_one = owner @ VaultError::UnauthorizedAccess
VaultConstraints(c, v) ==
    IF CreateProgramAddress(c, vaults[v].bump) # v THEN "ConstraintSeeds"
    ELSE IF vaults[v].owner # c THEN "UnauthorizedAccess"
    ELSE "Ok"

\* init / init_if_needed of the associated token account of (mint, authority),
\* paid by the caller c
InitTokenAccount(mint, authority, c, ifNeeded) ==
    IF ifNeeded /\ ata[<<mint, authority>>] # NoAccount
    THEN [err |-> "Ok", ata |-> ata, calls |-> <<>>]
    ELSE LET r == AssociatedTokenCreate(ata, mint, authority, c, {c})
         IN [err |-> r.ret, ata |-> r.st,
             calls |-> <<Call("associated_token::create", <<>>, <<>>, {c}, r.ret)>>]

Rejected(e) == [err |-> e, ata |-> ata, calls |-> <<>>]

\* mutant: init_if_needed in place of init, an existing vault is taken as it is
MutInitializeVaultIfNeeded(c, v) ==
    IF vaults[v].init
    THEN [err |-> IF v # FindProgramAddress(c) THEN "ConstraintSeeds" ELSE "Ok",
          ata |-> ata, calls |-> <<>>]
    ELSE LET signers == {c} \cup SignerSeeds(c, FindBump(c))
             r == SystemCreateAccount(vaults, v, c, signers)
         IN [err |-> IF r.ret # "Ok" THEN r.ret
                     ELSE IF v # FindProgramAddress(c) THEN "ConstraintSeeds" ELSE "Ok",
             ata |-> ata,
             calls |-> <<Call("system::create_account", <<>>, <<>>, signers, r.ret)>>]

\* init, payer = owner, seeds = [VAULT_SEED, owner.key().as_ref()], bump: the
\* vault account is created at the address the seeds derive, signed for with
\* the seeds; an address that already holds an account cannot be created
InitializeVault(c, v) ==
    LET signers == {c} \cup SignerSeeds(c, FindBump(c))
        r == SystemCreateAccount(vaults, v, c, signers)
    IN [err |-> IF r.ret # "Ok" THEN r.ret
                ELSE IF v # FindProgramAddress(c) THEN "ConstraintSeeds" ELSE "Ok",
        ata |-> ata,
        calls |-> <<Call("system::create_account", <<>>, <<>>, signers, r.ret)>>]

DepositDomain(c, v, m) ==
    IF AccountUserVault(v) # "Ok" THEN Rejected(AccountUserVault(v))
    ELSE IF AccountTokenAccount(m, c) # "Ok" THEN Rejected(AccountTokenAccount(m, c))
    ELSE LET i == InitTokenAccount(m, v, c, TRUE)
         IN IF i.err # "Ok" THEN i ELSE [i EXCEPT !.err = VaultConstraints(c, v)]

WithdrawDomain(c, v, m) ==
    IF AccountUserVault(v) # "Ok" THEN Rejected(AccountUserVault(v))
    ELSE IF AccountTokenAccount(m, v) # "Ok" THEN Rejected(AccountTokenAccount(m, v))
    ELSE LET i == InitTokenAccount(m, c, c, TRUE)
         IN IF i.err # "Ok" THEN i ELSE [i EXCEPT !.err = VaultConstraints(c, v)]

InitVaultTokenAccount(c, v, m) ==
    IF AccountUserVault(v) # "Ok" THEN Rejected(AccountUserVault(v))
    ELSE LET i == InitTokenAccount(m, v, c, FALSE)
         IN IF i.err # "Ok" THEN i ELSE [i EXCEPT !.err = VaultConstraints(c, v)]

DepositUnwrappedDomain(c, v) ==
    IF AccountUserVault(v) # "Ok" THEN Rejected(AccountUserVault(v))
    ELSE Rejected(VaultConstraints(c, v))

WithdrawUnwrappedDomain(c, v) ==
    IF AccountUserVault(v) # "Ok" THEN Rejected(AccountUserVault(v))
    ELSE Rejected(VaultConstraints(c, v))

DepositDomainWithRecord(c, v) ==
    IF AccountUserVault(v) # "Ok" THEN Rejected(AccountUserVault(v))
    ELSE Rejected(VaultConstraints(c, v))

(***************************************************************************)
(* The unit of work.                                                       *)
(***************************************************************************)
\* mutant: the result of the call is dropped, the handler goes on
MutTryIgnored(ret) == FALSE

\* the `?` after a cross-program call: TRUE when the handler returns early
Try(ret) == ret # "Ok"

\* mutant: the error of the service is replaced by one generic error
MutPropagateGeneric(ret) == "ExternalCallFailure"

\* the error the `?` returns to the caller: the one the service returned
Propagate(ret) == ret

\* mutant: the guard is off by one
MutRequireHasDomainsOffByOne(count) == count >= 0

\* require!(vault.domains_count > 0, VaultError::NoDomains)
RequireHasDomains(count) == count > 0

\* mutants: wrapping_add in place of checked_add; the decrement is lost
MutCheckedAddWrapping(x, y) == (x + y) % (CounterMax + 1)
\* mutant: saturating_add in place of checked_add
MutCheckedAddSaturating(x, y) == IF x + y > CounterMax THEN CounterMax ELSE x + y
MutCheckedSubNoop(x, y) == x

\* u64::checked_add / checked_sub; NoneU64 is the None result
NoneU64 == -1
CheckedAdd(x, y) == IF x + y > CounterMax THEN NoneU64 ELSE x + y
CheckedSub(x, y) == IF x - y < 0 THEN NoneU64 ELSE x - y

\* the instruction starts: the ledger is captured, the accounts are validated
Enter(op, c, v, asset, val, pc) ==
    /\ tx.pc = "idle"
    /\ snap' = ledger
    /\ IF val.err = "Ok"
       THEN /\ tx' = [pc |-> pc, op |-> op, caller |-> c, vault |-> v,
                      asset |-> asset, err |-> "Ok", calls |-> val.calls]
            /\ ata' = val.ata
       ELSE /\ tx' = [pc |-> "done", op |-> op, caller |-> c, vault |-> v,
                      asset |-> asset, err |-> val.err, calls |-> val.calls]
            /\ ata' = ata
    /\ UNCHANGED <<vaults, nameOwner, records, last, net, direct>>

\* the instruction fails: the host discards every change it made
Abort(e, calls) ==
    /\ tx' = [tx EXCEPT !.pc = "done", !.err = e, !.calls = calls]
    /\ vaults' = snap[1]
    /\ ata' = snap[2]
    /\ nameOwner' = snap[3]
    /\ records' = snap[4]
    /\ UNCHANGED <<snap, last, net, direct>>


\* mutant: the handler stores a default account that carries the count alone
MutCommitDefaultAccount(count) ==
    /\ vaults' = [vaults EXCEPT ![tx.vault] = [NoVault EXCEPT !.domains_count = count]]
    /\ tx' = [tx EXCEPT !.pc = "done"]
    /\ UNCHANGED <<ata, nameOwner, records, snap, last, net, direct>>

\* the handler returns Ok(()): domains_count is stored, the unit of work commits
Commit(count) ==
    /\ vaults' = [vaults EXCEPT ![tx.vault].domains_count = count]
    /\ tx' = [tx EXCEPT !.pc = "done"]
    /\ UNCHANGED <<ata, nameOwner, records, snap, last, net, direct>>

\* mutant: the handler returns without counting the deposited domain
MutCountUpSkipped == Commit(vaults[tx.vault].domains_count)

\* mutant: the count is computed from the value the previous operation read
MutCountUpStale == Commit(last.pre + 1)

\* vault.domains_count = vault.domains_count.checked_add(1).unwrap()
CountUp ==
    LET r == CheckedAdd(vaults[tx.vault].domains_count, 1)
    IN IF r = NoneU64 THEN Abort("Panic", tx.calls) ELSE Commit(r)

\* vault.domains_count = vault.domains_count.checked_sub(1).unwrap()
CountDown ==
    LET r == CheckedSub(vaults[tx.vault].domains_count, 1)
    IN IF r = NoneU64 THEN Abort("Panic", tx.calls) ELSE Commit(r)

DepositOps == {"deposit_domain", "deposit_unwrapped_domain", "deposit_domain_with_record"}
WithdrawOps == {"withdraw_domain", "withdraw_unwrapped_domain"}
\* the operations on an asset held as a token; the others move a name account
TokenOps == {"deposit_domain", "withdraw_domain"}

(***************************************************************************)
(* The instructions the handlers build for their cross-program calls.     *)
(***************************************************************************)
\* the instruction anchor_spl builds for transfer_checked(ctx, amount, decimals)
\* from the TransferChecked accounts; the payload is kept as its arguments
TransferChecked(from, to, authority, mint, amount, decimals) ==
    Instruction(<<"program", 3, 0>>,
                <<AccountMetaNew(from, FALSE), AccountMetaNewReadonly(mint, FALSE),
                  AccountMetaNew(to, FALSE), AccountMetaNewReadonly(authority, TRUE)>>,
                <<amount, decimals>>)

\* deposit_domain: from the user's token account to the vault's, authority owner
deposit_domain_cpi(c, v, m) ==
    TransferChecked(TokenAccountKey(m, c), TokenAccountKey(m, v), c, MintKey(m), 1, 0)

\* mutant: the withdrawal names the user's token account as the source
MutWithdrawFromUser(c, v, m) ==
    TransferChecked(TokenAccountKey(m, c), TokenAccountKey(m, v), v, MintKey(m), 1, 0)

\* withdraw_domain: from the vault's token account to the user's, authority vault
withdraw_domain_cpi(c, v, m) ==
    TransferChecked(TokenAccountKey(m, v), TokenAccountKey(m, c), v, MintKey(m), 1, 0)

\* mutant: the payload is the new owner alone, the instruction index is missing
MutDepositUnwrappedNoOpcode(c, v, n) ==
    Instruction(NAME_SERVICE_PROGRAM_ID,
                <<AccountMetaNew(NameAccountKey(n), FALSE), AccountMetaNewReadonly(c, TRUE)>>,
                ToBytes(v))

\* deposit_unwrapped_domain: Transfer = 2, new owner the vault, the owner signs
deposit_unwrapped_transfer_ix(c, v, n) ==
    Instruction(NAME_SERVICE_PROGRAM_ID,
                <<AccountMetaNew(NameAccountKey(n), FALSE), AccountMetaNewReadonly(c, TRUE)>>,
                <<2>> \o ToBytes(v))

\* mutant: the owner is presented as the signing current owner of the name
MutWithdrawUnwrappedOwnerSigns(c, v, n) ==
    Instruction(NAME_SERVICE_PROGRAM_ID,
                <<AccountMetaNew(NameAccountKey(n), FALSE), AccountMetaNewReadonly(c, TRUE)>>,
                <<2>> \o ToBytes(c))

\* withdraw_unwrapped_domain: Transfer = 2, new owner the owner, the vault signs
withdraw_unwrapped_transfer_ix(c, v, n) ==
    Instruction(NAME_SERVICE_PROGRAM_ID,
                <<AccountMetaNew(NameAccountKey(n), FALSE), AccountMetaNewReadonly(v, TRUE)>>,
                <<2>> \o ToBytes(c))

\* deposit_domain_with_record, step 1
transfer_ix(c, v, n) ==
    Instruction(NAME_SERVICE_PROGRAM_ID,
                <<AccountMetaNew(NameAccountKey(n), FALSE), AccountMetaNewReadonly(c, TRUE)>>,
                <<2>> \o ToBytes(v))

\* mutant: the record name without its 0x02 prefix byte
MutRecordNameNoPrefix == <<83, 79, 76>>

\* the record name of a V2 SOL record: 0x02, 'S', 'O', 'L'
record_name == <<2, 83, 79, 76>>

\* step 2: tag 1, the record name and the content (the vault address), each
\* with its length as u32 little endian
allocate_ix(c, v, n) ==
    Instruction(SNS_RECORDS_PROGRAM_ID,
                <<AccountMetaNewReadonly(SYSTEM_PROGRAM_ID, FALSE),
                  AccountMetaNewReadonly(NAME_SERVICE_PROGRAM_ID, FALSE),
                  AccountMetaNew(c, TRUE),
                  AccountMetaNew(get_sol_record_v2_key(n), FALSE),
                  AccountMetaNew(NameAccountKey(n), FALSE),
                  AccountMetaNew(v, TRUE),
                  AccountMetaNewReadonly(get_central_state_key, FALSE)>>,
                <<1>> \o U32ToLeBytes(Len(record_name)) \o record_name
                      \o U32ToLeBytes(Len(ToBytes(v))) \o ToBytes(v))

\* mutant: the roaId written is the key of the owner, not the vault address
MutWriteRoaOwnerAsRoaId(c, v, n) ==
    Instruction(SNS_RECORDS_PROGRAM_ID,
                <<AccountMetaNewReadonly(SYSTEM_PROGRAM_ID, FALSE),
                  AccountMetaNewReadonly(NAME_SERVICE_PROGRAM_ID, FALSE),
                  AccountMetaNew(c, TRUE),
                  AccountMetaNew(get_sol_record_v2_key(n), FALSE),
                  AccountMetaNew(NameAccountKey(n), FALSE),
                  AccountMetaNew(v, TRUE),
                  AccountMetaNewReadonly(get_central_state_key, FALSE)>>,
                <<6>> \o U32ToLeBytes(32) \o ToBytes(c))

\* step 3: tag 6, the roaId (the vault address) with its length
write_roa_ix(c, v, n) ==
    Instruction(SNS_RECORDS_PROGRAM_ID,
                <<AccountMetaNewReadonly(SYSTEM_PROGRAM_ID, FALSE),
                  AccountMetaNewReadonly(NAME_SERVICE_PROGRAM_ID, FALSE),
                  AccountMetaNew(c, TRUE),
                  AccountMetaNew(get_sol_record_v2_key(n), FALSE),
                  AccountMetaNew(NameAccountKey(n), FALSE),
                  AccountMetaNew(v, TRUE),
                  AccountMetaNewReadonly(get_central_state_key, FALSE)>>,
                <<6>> \o U32ToLeBytes(32) \o ToBytes(v))

\* mutant: the vault signs at the domain owner position, no verifier is named
MutValidateNoVerifier(c, v, n) ==
    Instruction(SNS_RECORDS_PROGRAM_ID,
                <<AccountMetaNewReadonly(SYSTEM_PROGRAM_ID, FALSE),
                  AccountMetaNewReadonly(NAME_SERVICE_PROGRAM_ID, FALSE),
                  AccountMetaNew(c, TRUE),
                  AccountMetaNew(get_sol_record_v2_key(n), FALSE),
                  AccountMetaNew(NameAccountKey(n), FALSE),
                  AccountMetaNew(v, TRUE),
                  AccountMetaNewReadonly(get_central_state_key, FALSE)>>,
                <<3, 1>>)

\* step 4: tag 3, staleness = true; the vault is the domain owner (no signer)
\* and, at position 7, the verifier (signer)
validate_ix(c, v, n) ==
    Instruction(SNS_RECORDS_PROGRAM_ID,
                <<AccountMetaNewReadonly(SYSTEM_PROGRAM_ID, FALSE),
                  AccountMetaNewReadonly(NAME_SERVICE_PROGRAM_ID, FALSE),
                  AccountMetaNew(c, TRUE),
                  AccountMetaNew(get_sol_record_v2_key(n), FALSE),
                  AccountMetaNew(NameAccountKey(n), FALSE),
                  AccountMetaNew(v, FALSE),
                  AccountMetaNewReadonly(get_central_state_key, FALSE),
                  AccountMetaNew(v, TRUE)>>,
                <<3, 1>>)

\* the entry of the log for instruction i issued as `name`
Issued(name, i, signers, ret) == Call(name, i.accounts, i.data, signers, ret)

\* mutant: the stored bump is the first candidate tried, not the one found
MutNewUserVaultFirstBump(c) ==
    [init |-> TRUE, owner |-> c, bump |-> MAX_BUMP, domains_count |-> 0]

\* the UserVault account initialize_vault writes
NewUserVault(c) ==
    [init |-> TRUE, owner |-> c, bump |-> FindBump(c), domains_count |-> 0]

(***************************************************************************)
(* initialize_vault                                                        *)
(***************************************************************************)
initialize_vault(c, v) ==
    /\ tx.pc = "idle"
    /\ snap' = ledger
    /\ LET val == InitializeVault(c, v)
       IN /\ tx' = [pc |-> "done", op |-> "initialize_vault", caller |-> c,
                    vault |-> v, asset |-> 0, err |-> val.err, calls |-> val.calls]
          /\ vaults' = IF val.err = "Ok"
                       THEN [vaults EXCEPT ![v] = NewUserVault(c)]
                       ELSE vaults
    /\ UNCHANGED <<ata, nameOwner, records, last, net, direct>>

(***************************************************************************)
(* deposit_domain                                                          *)
(***************************************************************************)
deposit_domain(c, v, m) ==
    /\ Enter("deposit_domain", c, v, m, DepositDomain(c, v, m), "deposit_domain:transfer")

deposit_domain_transfer ==
    /\ tx.pc = "deposit_domain:transfer"
    /\ \E fault \in BOOLEAN :
        LET signers == {tx.caller}
            i == deposit_domain_cpi(tx.caller, tx.vault, tx.asset)
            r == Invoke(i, signers, ata,
                        TokenTransferChecked(ata, <<tx.asset, tx.caller>>,
                                             <<tx.asset, tx.vault>>, i.accounts[4].pubkey,
                                             SignerKeys(i), i.data[1], fault))
            calls == Append(tx.calls, Issued("transfer_checked", i, signers, r.ret))
        IN IF Try(r.ret) THEN Abort(Propagate(r.ret), calls)
           ELSE /\ ata' = r.st
                /\ tx' = [tx EXCEPT !.pc = "deposit_domain:count", !.calls = calls]
                /\ UNCHANGED <<vaults, nameOwner, records, snap, last, net, direct>>

deposit_domain_count ==
    /\ tx.pc = "deposit_domain:count"
    /\ CountUp

(***************************************************************************)
(* withdraw_domain                                                         *)
(***************************************************************************)
withdraw_domain(c, v, m) ==
    Enter("withdraw_domain", c, v, m, WithdrawDomain(c, v, m), "withdraw_domain:transfer")

withdraw_domain_transfer ==
    /\ tx.pc = "withdraw_domain:transfer"
    /\ IF ~RequireHasDomains(vaults[tx.vault].domains_count)
       THEN Abort("NoDomains", tx.calls)
       ELSE \E fault \in BOOLEAN :
        LET signers == {tx.caller} \cup SignerSeeds(tx.caller, vaults[tx.vault].bump)
            i == withdraw_domain_cpi(tx.caller, tx.vault, tx.asset)
            r == Invoke(i, signers, ata,
                        TokenTransferChecked(ata, <<tx.asset, tx.vault>>,
                                             <<tx.asset, tx.caller>>, i.accounts[4].pubkey,
                                             SignerKeys(i), i.data[1], fault))
            calls == Append(tx.calls, Issued("transfer_checked", i, signers, r.ret))
        IN IF Try(r.ret) THEN Abort(Propagate(r.ret), calls)
           ELSE /\ ata' = r.st
                /\ tx' = [tx EXCEPT !.pc = "withdraw_domain:count", !.calls = calls]
                /\ UNCHANGED <<vaults, nameOwner, records, snap, last, net, direct>>

withdraw_domain_count ==
    /\ tx.pc = "withdraw_domain:count"
    /\ CountDown

(***************************************************************************)
(* init_vault_token_account                                                *)
(***************************************************************************)
init_vault_token_account(c, v, m) ==
    /\ Enter("init_vault_token_account", c, v, m, InitVaultTokenAccount(c, v, m), "done")

(***************************************************************************)
(* deposit_unwrapped_domain                                                *)
(***************************************************************************)
deposit_unwrapped_domain(c, v, n) ==
    /\ Enter("deposit_unwrapped_domain", c, v, n, DepositUnwrappedDomain(c, v),
             "deposit_unwrapped_domain:transfer")

deposit_unwrapped_domain_transfer ==
    /\ tx.pc = "deposit_unwrapped_domain:transfer"
    /\ \E fault \in BOOLEAN :
        LET signers == {tx.caller}
            i == deposit_unwrapped_transfer_ix(tx.caller, tx.vault, tx.asset)
            r == Invoke(i, signers, nameOwner, NameServiceProcess(nameOwner, i, fault))
            calls == Append(tx.calls, Issued("name_service::transfer", i, signers, r.ret))
        IN IF Try(r.ret) THEN Abort(Propagate(r.ret), calls)
           ELSE /\ nameOwner' = r.st
                /\ tx' = [tx EXCEPT !.pc = "deposit_unwrapped_domain:count", !.calls = calls]
                /\ UNCHANGED <<vaults, ata, records, snap, last, net, direct>>

deposit_unwrapped_domain_count ==
    /\ tx.pc = "deposit_unwrapped_domain:count"
    /\ CountUp

(***************************************************************************)
(* withdraw_unwrapped_domain                                               *)
(***************************************************************************)
withdraw_unwrapped_domain(c, v, n) ==
    Enter("withdraw_unwrapped_domain", c, v, n, WithdrawUnwrappedDomain(c, v),
          "withdraw_unwrapped_domain:transfer")

\* mutant: the withdrawal also deletes the record of the domain
MutWithdrawUnwrappedDeletesRecord ==
    /\ tx.pc = "withdraw_unwrapped_domain:transfer"
    /\ IF ~RequireHasDomains(vaults[tx.vault].domains_count)
       THEN Abort("NoDomains", tx.calls)
       ELSE \E fault \in BOOLEAN :
        LET signers == {tx.caller} \cup SignerSeeds(tx.caller, vaults[tx.vault].bump)
            i == withdraw_unwrapped_transfer_ix(tx.caller, tx.vault, tx.asset)
            r == Invoke(i, signers, nameOwner, NameServiceProcess(nameOwner, i, fault))
            calls == Append(tx.calls, Issued("name_service::transfer", i, signers, r.ret))
        IN IF Try(r.ret) THEN Abort(Propagate(r.ret), calls)
           ELSE /\ nameOwner' = r.st
                /\ records' = [records EXCEPT ![tx.asset] = NoRecord]
                /\ tx' = [tx EXCEPT !.pc = "withdraw_unwrapped_domain:count", !.calls = calls]
                /\ UNCHANGED <<vaults, ata, snap, last, net, direct>>

withdraw_unwrapped_domain_transfer ==
    /\ tx.pc = "withdraw_unwrapped_domain:transfer"
    /\ IF ~RequireHasDomains(vaults[tx.vault].domains_count)
       THEN Abort("NoDomains", tx.calls)
       ELSE \E fault \in BOOLEAN :
        LET signers == {tx.caller} \cup SignerSeeds(tx.caller, vaults[tx.vault].bump)
            i == withdraw_unwrapped_transfer_ix(tx.caller, tx.vault, tx.asset)
            r == Invoke(i, signers, nameOwner, NameServiceProcess(nameOwner, i, fault))
            calls == Append(tx.calls, Issued("name_service::transfer", i, signers, r.ret))
        IN IF Try(r.ret) THEN Abort(Propagate(r.ret), calls)
           ELSE /\ nameOwner' = r.st
                /\ tx' = [tx EXCEPT !.pc = "withdraw_unwrapped_domain:count", !.calls = calls]
                /\ UNCHANGED <<vaults, ata, records, snap, last, net, direct>>

withdraw_unwrapped_domain_count ==
    /\ tx.pc = "withdraw_unwrapped_domain:count"
    /\ CountDown


(***************************************************************************)
(* deposit_domain_with_record                                              *)
(***************************************************************************)
deposit_domain_with_record(c, v, n) ==
    /\ Enter("deposit_domain_with_record", c, v, n, DepositDomainWithRecord(c, v),
             "deposit_domain_with_record:step1")

\* the keys that sign the invoke_signed calls of steps 2 to 4
RecordSigners == {tx.caller} \cup SignerSeeds(tx.caller, vaults[tx.vault].bump)

\* mutant: the record is not allocated, step 1 is followed by the writeRoa call
MutStep1ThenStep3 ==
    /\ tx.pc = "deposit_domain_with_record:step1"
    /\ \E fault \in BOOLEAN :
        LET signers == {tx.caller}
            i == transfer_ix(tx.caller, tx.vault, tx.asset)
            r == Invoke(i, signers, nameOwner, NameServiceProcess(nameOwner, i, fault))
            calls == Append(tx.calls, Issued("name_service::transfer", i, signers, r.ret))
        IN IF Try(r.ret) THEN Abort(Propagate(r.ret), calls)
           ELSE /\ nameOwner' = r.st
                /\ tx' = [tx EXCEPT !.pc = "deposit_domain_with_record:step3", !.calls = calls]
                /\ UNCHANGED <<vaults, ata, records, snap, last, net, direct>>

\* Step 1: transfer domain ownership to the vault PDA (invoke, the user signs)
deposit_domain_with_record_step1 ==
    /\ tx.pc = "deposit_domain_with_record:step1"
    /\ \E fault \in BOOLEAN :
        LET signers == {tx.caller}
            i == transfer_ix(tx.caller, tx.vault, tx.asset)
            r == Invoke(i, signers, nameOwner, NameServiceProcess(nameOwner, i, fault))
            calls == Append(tx.calls, Issued("name_service::transfer", i, signers, r.ret))
        IN IF Try(r.ret) THEN Abort(Propagate(r.ret), calls)
           ELSE /\ nameOwner' = r.st
                /\ tx' = [tx EXCEPT !.pc = "deposit_domain_with_record:step2", !.calls = calls]
                /\ UNCHANGED <<vaults, ata, records, snap, last, net, direct>>

\* Step 2: allocate and post the SOL record V2 with the vault address
deposit_domain_with_record_step2 ==
    /\ tx.pc = "deposit_domain_with_record:step2"
    /\ \E fault \in BOOLEAN :
        LET i == allocate_ix(tx.caller, tx.vault, tx.asset)
            r == Invoke(i, RecordSigners, records, RecordsProcess(records, nameOwner, i, fault))
            calls == Append(tx.calls, Issued("sns_records::allocate_and_post_record", i,
                                             RecordSigners, r.ret))
        IN IF Try(r.ret) THEN Abort(Propagate(r.ret), calls)
           ELSE /\ records' = r.st
                /\ tx' = [tx EXCEPT !.pc = "deposit_domain_with_record:step3", !.calls = calls]
                /\ UNCHANGED <<vaults, ata, nameOwner, snap, last, net, direct>>

\* mutant: a failure of step 3 is logged and the handler returns Ok(()), so the
\* unit of work commits what steps 1 and 2 did
MutStep3ErrorSwallowed ==
    /\ tx.pc = "deposit_domain_with_record:step3"
    /\ \E fault \in BOOLEAN :
        LET i == write_roa_ix(tx.caller, tx.vault, tx.asset)
            r == Invoke(i, RecordSigners, records, RecordsProcess(records, nameOwner, i, fault))
            calls == Append(tx.calls, Issued("sns_records::write_roa", i, RecordSigners, r.ret))
        IN /\ records' = r.st
           /\ tx' = [tx EXCEPT !.pc = IF r.ret # "Ok" THEN "done"
                                      ELSE "deposit_domain_with_record:step4",
                               !.calls = calls]
           /\ UNCHANGED <<vaults, ata, nameOwner, snap, last, net, direct>>

\* Step 3: write the right of association, roaId = vault PDA
deposit_domain_with_record_step3 ==
    /\ tx.pc = "deposit_domain_with_record:step3"
    /\ \E fault \in BOOLEAN :
        LET i == write_roa_ix(tx.caller, tx.vault, tx.asset)
            r == Invoke(i, RecordSigners, records, RecordsProcess(records, nameOwner, i, fault))
            calls == Append(tx.calls, Issued("sns_records::write_roa", i, RecordSigners, r.ret))
        IN IF Try(r.ret) THEN Abort(Propagate(r.ret), calls)
           ELSE /\ records' = r.st
                /\ tx' = [tx EXCEPT !.pc = "deposit_domain_with_record:step4", !.calls = calls]
                /\ UNCHANGED <<vaults, ata, nameOwner, snap, last, net, direct>>

\* Step 4: validate staleness and the right of association, the vault verifies
deposit_domain_with_record_step4 ==
    /\ tx.pc = "deposit_domain_with_record:step4"
    /\ \E fault \in BOOLEAN :
        LET i == validate_ix(tx.caller, tx.vault, tx.asset)
            r == Invoke(i, RecordSigners, records, RecordsProcess(records, nameOwner, i, fault))
            calls == Append(tx.calls, Issued("sns_records::validate_solana_signature", i,
                                             RecordSigners, r.ret))
        IN IF Try(r.ret) THEN Abort(Propagate(r.ret), calls)
           ELSE /\ records' = r.st
                /\ tx' = [tx EXCEPT !.pc = "deposit_domain_with_record:count", !.calls = calls]
                /\ UNCHANGED <<vaults, ata, nameOwner, snap, last, net, direct>>

deposit_domain_with_record_count ==
    /\ tx.pc = "deposit_domain_with_record:count"
    /\ CountUp

(***************************************************************************)
(* The result is handed back to the caller; the next instruction may start. *)
(***************************************************************************)
\* Bookkeeping of the history, from the results the callers were given:
\* net[v] is the number of deposits on v reported successful minus the number
\* of withdrawals on v reported successful; last is the latest deposit or
\* withdrawal reported successful, with domains_count of its vault before it.
Return ==
    /\ tx.pc = "done"
    /\ tx' = IdleTx
    /\ snap' = NoSnap
    /\ net' = IF tx.err # "Ok" THEN net
              ELSE IF tx.op \in DepositOps THEN [net EXCEPT ![tx.vault] = @ + 1]
              ELSE IF tx.op \in WithdrawOps THEN [net EXCEPT ![tx.vault] = @ - 1]
              ELSE net
    /\ last' = IF tx.err = "Ok" /\ tx.op \in DepositOps \cup WithdrawOps
               THEN [op |-> tx.op, asset |-> tx.asset, vault |-> tx.vault,
                     pre |-> snap[1][tx.vault].domains_count]
               ELSE last
    /\ UNCHANGED <<vaults, ata, nameOwner, records, direct>>

(***************************************************************************)
(* What users do at the external services without this program: a user    *)
(* makes a vault address the owner of a name it owns, or sends a token it  *)
(* holds to the token account of a vault.  direct[v] counts these.         *)
(***************************************************************************)
DirectTransfers == direct[FindProgramAddress(UserKey(1))] + direct[FindProgramAddress(UserKey(2))]

direct_name_transfer(u, n, v) ==
    /\ tx.pc = "idle"
    /\ DirectTransfers < MaxDirect
    /\ LET i == Instruction(NAME_SERVICE_PROGRAM_ID,
                            <<AccountMetaNew(NameAccountKey(n), FALSE),
                              AccountMetaNewReadonly(u, TRUE)>>,
                            <<2>> \o ToBytes(v))
           r == NameServiceProcess(nameOwner, i, FALSE)
       IN /\ r.ret = "Ok"
          /\ nameOwner' = r.st
    /\ direct' = [direct EXCEPT ![v] = @ + 1]
    /\ last' = NoLast
    /\ UNCHANGED <<vaults, ata, records, tx, snap, net>>

direct_token_transfer(u, m, v) ==
    /\ tx.pc = "idle"
    /\ DirectTransfers < MaxDirect
    /\ LET r == TokenTransferChecked(ata, <<m, u>>, <<m, v>>, u, {u}, 1, FALSE)
       IN /\ r.ret = "Ok"
          /\ ata' = r.st
    /\ direct' = [direct EXCEPT ![v] = @ + 1]
    /\ last' = NoLast
    /\ UNCHANGED <<vaults, nameOwner, records, tx, snap, net>>

Next ==
    \/ \E c \in UserKeys, v \in VaultKeys : initialize_vault(c, v)
    \/ \E c \in UserKeys, v \in VaultKeys, m \in Mints : deposit_domain(c, v, m)
    \/ deposit_domain_transfer
    \/ deposit_domain_count
    \/ \E c \in UserKeys, v \in VaultKeys, m \in Mints : withdraw_domain(c, v, m)
    \/ withdraw_domain_transfer
    \/ withdraw_domain_count
    \/ \E c \in UserKeys, v \in VaultKeys, m \in Mints : init_vault_token_account(c, v, m)
    \/ \E c \in UserKeys, v \in VaultKeys, n \in Names : deposit_unwrapped_domain(c, v, n)
    \/ deposit_unwrapped_domain_transfer
    \/ deposit_unwrapped_domain_count
    \/ \E c \in UserKeys, v \in VaultKeys, n \in Names : withdraw_unwrapped_domain(c, v, n)
    \/ withdraw_unwrapped_domain_transfer
    \/ withdraw_unwrapped_domain_count
    \/ \E c \in UserKeys, v \in VaultKeys, n \in Names : deposit_domain_with_record(c, v, n)
    \/ deposit_domain_with_record_step1
    \/ deposit_domain_with_record_step2
    \/ deposit_domain_with_record_step3
    \/ deposit_domain_with_record_step4
    \/ deposit_domain_with_record_count
    \/ Return

\* the program alone: every change of custody goes through its instructions
Spec == Init /\ [][Next]_vars

\* the program, and users who also act at the external services directly
NextDirect ==
    \/ Next
    \/ \E u \in UserKeys, n \in DirectNames, v \in VaultKeys : direct_name_transfer(u, n, v)
    \/ \E u \in UserKeys, m \in Mints, v \in VaultKeys : direct_token_transfer(u, m, v)

SpecDirect == Init /\ [][NextDirect]_vars


(***************************************************************************)
(* Vocabulary of the properties.                                           *)
(***************************************************************************)
Done == tx.pc = "done"

\* the operations that take an existing vault
VaultOps == DepositOps \cup WithdrawOps \cup {"init_vault_token_account"}

\* the targeted vault account / the whole ledger when the instruction started
PreVault == snap[1][tx.vault]
Unchanged == ledger = snap

Count(v) == vaults[v].domains_count

\* the calls issued by account validation (creation of accounts); the others
\* are the calls of the handler
CreationIx == {"associated_token::create", "system::create_account"}
HandlerCalls == SelectSeq(tx.calls, LAMBDA k : k.ix \notin CreationIx)

\* a call of the handler returned an error
HandlerCallFailed == \E i \in 1..Len(HandlerCalls) : HandlerCalls[i].ret # "Ok"

\* the error of the failed handler call, when it is the last call issued
LastRet == tx.calls[Len(tx.calls)].ret

\* the errors the program and its framework raise themselves
OwnErrors == {"AccountNotInitialized", "ConstraintSeeds", "UnauthorizedAccess",
              "NoDomains", "Panic"}

\* the taxonomy of the specification, in the codes of the implementation
NotFound == "AccountNotInitialized"
AlreadyExists == "AccountAlreadyInUse"
AddressMismatch == "ConstraintSeeds"

(***************************************************************************)
(* C1: on every vault domains_count equals the number of successful        *)
(* deposits minus the number of successful withdrawals, stays within       *)
(* 0..CounterMax, and an operation changes it by +1 (successful deposit),  *)
(* -1 (successful withdrawal) or 0 (anything else, failures included).     *)
(***************************************************************************)
C1_Delta(v) ==
    IF v = tx.vault /\ tx.err = "Ok" /\ tx.op \in DepositOps THEN 1
    ELSE IF v = tx.vault /\ tx.err = "Ok" /\ tx.op \in WithdrawOps THEN -1
    ELSE 0

C1_CountIsNetDeposits ==
    \A v \in VaultKeys :
        /\ Count(v) \in 0..CounterMax
        /\ tx.pc = "idle" => Count(v) = net[v]
        /\ tx.pc # "idle" => net[v] = snap[1][v].domains_count
        /\ tx.pc \notin {"idle", "done"} => Count(v) = net[v]
        /\ Done => Count(v) = net[v] + C1_Delta(v)

C1_Witness ==
    /\ Done /\ tx.op \in WithdrawOps /\ tx.err = "Ok"
    /\ Count(tx.vault) = 1 /\ net[tx.vault] = 2

(***************************************************************************)
(* C2: an operation on an existing vault by a caller that is not its       *)
(* stored owner, the other accounts of the instruction being valid, fails  *)
(* with UnauthorizedAccess, leaves the ledger unchanged and issues no      *)
(* external call.                                                          *)
(***************************************************************************)
\* the holding accounts the instruction names pass validation
C2_HoldingAccountsValid ==
    /\ tx.op = "deposit_domain" => snap[2][<<tx.asset, tx.caller>>] # NoAccount
    /\ tx.op = "withdraw_domain" => snap[2][<<tx.asset, tx.vault>>] # NoAccount
    /\ tx.op = "init_vault_token_account" => snap[2][<<tx.asset, tx.vault>>] = NoAccount

C2_Pre ==
    /\ Done /\ tx.op \in VaultOps
    /\ PreVault.init /\ PreVault.owner # tx.caller
    /\ C2_HoldingAccountsValid

C2_ForeignCallerUnauthorized ==
    C2_Pre => /\ tx.err = "UnauthorizedAccess"
              /\ Unchanged
              /\ tx.calls = <<>>

(***************************************************************************)
(* C3: when an external call of deposit_domain_with_record fails, the      *)
(* operation reports that failure (an error of the service, not one of the *)
(* program's own) and domains_count is what it was before the operation.   *)
(***************************************************************************)
C3_Pre ==
    /\ Done /\ tx.op = "deposit_domain_with_record"
    /\ HandlerCallFailed

C3_StepFailureKeepsCount ==
    C3_Pre => /\ tx.err # "Ok"
              /\ tx.err = LastRet
              /\ tx.err \notin OwnErrors
              /\ Count(tx.vault) = PreVault.domains_count

C3_Witness ==
    /\ C3_Pre /\ Len(tx.calls) = 3
    /\ tx.calls[3].ix = "sns_records::write_roa" /\ tx.calls[3].ret # "Ok"

(***************************************************************************)
(* C4: when deposit_domain_with_record fails at a step, nothing of the     *)
(* earlier steps is committed: the registry owner of the domain and the    *)
(* resolution record are what they were before the operation, and the      *)
(* domain is not left with the vault without having been counted.          *)
(***************************************************************************)
C4_NothingCommitted ==
    C3_Pre => /\ nameOwner = snap[3]
              /\ records = snap[4]
              /\ vaults = snap[1]
              /\ (nameOwner[tx.asset] = tx.vault => snap[3][tx.asset] = tx.vault)

C4_Witness ==
    /\ C3_Pre /\ Len(tx.calls) = 4 /\ tx.calls[4].ret # "Ok"
    /\ nameOwner[tx.asset] = tx.caller /\ ~records[tx.asset].exists


(***************************************************************************)
(* C5: a withdrawal by the owner from a vault whose domains_count is 0     *)
(* fails with NoDomains and leaves the count at 0 (for withdraw_domain the *)
(* vault's holding account of the mint exists, as the operation requires). *)
(***************************************************************************)
C5_Pre ==
    /\ Done /\ tx.op \in WithdrawOps
    /\ PreVault.init /\ PreVault.owner = tx.caller
    /\ PreVault.domains_count = 0
    /\ tx.op = "withdraw_domain" => snap[2][<<tx.asset, tx.vault>>] # NoAccount

C5_WithdrawalFloor ==
    C5_Pre => /\ tx.err = "NoDomains"
              /\ Count(tx.vault) = 0
              /\ Unchanged

C5_Witness ==
    /\ C5_Pre /\ tx.op = "withdraw_domain"
    /\ ata[<<tx.asset, tx.vault>>] = 0 /\ ata[<<tx.asset, tx.caller>>] = 1

(***************************************************************************)
(* C6 as stated: the same withdrawal issued again by the owner, right      *)
(* after it succeeded, fails with NoDomains and leaves domains_count       *)
(* unchanged, also while other domains remain in the vault.                *)
(***************************************************************************)
C6_Pre ==
    /\ Done /\ tx.op \in WithdrawOps
    /\ last.op = tx.op /\ last.asset = tx.asset /\ last.vault = tx.vault
    /\ PreVault.owner = tx.caller

C6_Original ==
    C6_Pre => /\ tx.err = "NoDomains"
              /\ Count(tx.vault) = PreVault.domains_count

(***************************************************************************)
(* C6 as amended: the replayed withdrawal fails and leaves domains_count   *)
(* unchanged; the error is NoDomains only when the count is 0.  While      *)
(* other domains remain (count > 0) the transfer is attempted once and the *)
(* error is the one the token or name service returns for it.              *)
(***************************************************************************)
C6_ReplayFails ==
    C6_Pre => /\ tx.err # "Ok"
              /\ Count(tx.vault) = PreVault.domains_count
              /\ Unchanged
              /\ PreVault.domains_count = 0 => tx.err = "NoDomains"
              /\ PreVault.domains_count > 0 =>
                    /\ Len(HandlerCalls) = 1
                    /\ tx.err = HandlerCalls[1].ret
                    /\ tx.err \in {"InsufficientFunds", "IllegalOwner", ServiceFault}

C6_Witness ==
    /\ C6_Pre /\ PreVault.domains_count = 1 /\ last.pre = 2
    /\ tx.err = "InsufficientFunds"

(***************************************************************************)
(* C7: initialize_vault by an owner whose vault exists fails with          *)
(* AlreadyExists (the account is already in use) and leaves owner, bump    *)
(* and domains_count of the vault as they were.                            *)
(***************************************************************************)
C7_Pre ==
    /\ Done /\ tx.op = "initialize_vault"
    /\ PreVault.init /\ PreVault.owner = tx.caller

C7_ReinitRejected ==
    C7_Pre => /\ tx.err = AlreadyExists
              /\ vaults[tx.vault] = PreVault
              /\ Unchanged

C7_Witness ==
    /\ C7_Pre /\ PreVault.domains_count = 2

(***************************************************************************)
(* C8: a successful deposit followed by the successful matching withdrawal *)
(* of the same asset from the same vault brings domains_count back to its  *)
(* value before the deposit and the asset back to the user.                *)
(***************************************************************************)
C8_MatchingDeposit ==
    IF tx.op = "withdraw_domain" THEN "deposit_domain" ELSE "deposit_unwrapped_domain"

C8_Pre ==
    /\ Done /\ tx.op \in WithdrawOps /\ tx.err = "Ok"
    /\ last.op = C8_MatchingDeposit /\ last.asset = tx.asset /\ last.vault = tx.vault

C8_RoundTrip ==
    C8_Pre => /\ Count(tx.vault) = last.pre
              /\ IF tx.op = "withdraw_domain"
                 THEN /\ ata[<<tx.asset, vaults[tx.vault].owner>>] = 1
                      /\ ata[<<tx.asset, tx.vault>>] = 0
                 ELSE nameOwner[tx.asset] = vaults[tx.vault].owner

C8_Witness ==
    /\ C8_Pre /\ tx.op = "withdraw_domain" /\ last.pre = 1

(***************************************************************************)
(* C9: every operation other than initialize_vault on a vault address that *)
(* holds no vault fails with NotFound (the account is not initialized),    *)
(* issues no external call and leaves the vault absent.                    *)
(***************************************************************************)
C9_Pre ==
    /\ Done /\ tx.op \in VaultOps
    /\ ~PreVault.init

C9_AbsentVaultNotFound ==
    C9_Pre => /\ tx.err = NotFound
              /\ tx.calls = <<>>
              /\ ~vaults[tx.vault].init
              /\ Unchanged

C9_Witness ==
    /\ C9_Pre /\ tx.op = "deposit_domain_with_record"
    /\ \E v \in VaultKeys : vaults[v].init

(***************************************************************************)
(* C10: when the token transfer or the registry transfer of a deposit or   *)
(* withdrawal returns an error, the operation ends with that very error,   *)
(* the call having been issued once and nothing after it, and the ledger   *)
(* (domains_count and custody) is what it was before the operation.        *)
(***************************************************************************)
C10_Pre ==
    /\ Done /\ tx.op \in TokenOps \cup {"deposit_unwrapped_domain", "withdraw_unwrapped_domain"}
    /\ HandlerCallFailed

C10_ErrorPropagated ==
    C10_Pre => /\ Len(HandlerCalls) = 1
               /\ tx.err = HandlerCalls[1].ret
               /\ LastRet = tx.err
               /\ Unchanged

C10_Witness ==
    /\ C10_Pre /\ tx.op = "withdraw_unwrapped_domain" /\ tx.err = ServiceFault

(***************************************************************************)
(* C11: a deposit on a vault whose domains_count is the maximum of the     *)
(* counter fails; when its external calls all returned success the failure *)
(* is the abort of the checked addition.  domains_count neither wraps nor  *)
(* is reported as stored: it is what it was, and the transfer the deposit  *)
(* made is not committed.                                                  *)
(***************************************************************************)
C11_Pre ==
    /\ Done /\ tx.op \in DepositOps
    /\ PreVault.init /\ PreVault.domains_count = CounterMax

C11_OverflowAborts ==
    C11_Pre => /\ tx.err # "Ok"
               /\ Count(tx.vault) = CounterMax
               /\ Unchanged
               /\ (HandlerCalls # <<>> /\ ~HandlerCallFailed) =>
                     /\ tx.err = "Panic"
                     /\ Len(HandlerCalls) =
                            IF tx.op = "deposit_domain_with_record" THEN 4 ELSE 1

C11_Witness ==
    /\ C11_Pre /\ tx.err = "Panic" /\ tx.op = "deposit_domain_with_record"
    /\ nameOwner[tx.asset] = tx.caller /\ ~records[tx.asset].exists

(***************************************************************************)
(* C12: a deposit or withdrawal on a vault whose address does not derive   *)
(* from the vault seed, the caller and the bump stored in that vault (the  *)
(* caller names the vault of another user), the holding accounts being     *)
(* valid, fails with the address-mismatch error, leaves the ledger         *)
(* unchanged and issues no external call.                                  *)
(***************************************************************************)
C12_Pre ==
    /\ Done /\ tx.op \in DepositOps \cup WithdrawOps
    /\ PreVault.init
    /\ CreateProgramAddress(tx.caller, PreVault.bump) # tx.vault
    /\ C2_HoldingAccountsValid

C12_AddressMismatchRejected ==
    C12_Pre => /\ tx.err = AddressMismatch
               /\ Unchanged
               /\ tx.calls = <<>>

(***************************************************************************)
(* C13: a successful initialize_vault found no vault at the address, which *)
(* is the address derived from the vault seed and the caller; afterwards   *)
(* the vault there has the caller as owner, as bump the bump of that       *)
(* derivation (the address derives again from it) and domains_count 0.     *)
(* No other vault and no other account has changed.                        *)
(***************************************************************************)
C13_Pre ==
    /\ Done /\ tx.op = "initialize_vault" /\ tx.err = "Ok"

C13_VaultInitialized ==
    C13_Pre => /\ ~PreVault.init
               /\ tx.vault = FindProgramAddress(tx.caller)
               /\ vaults[tx.vault].init
               /\ vaults[tx.vault].owner = tx.caller
               /\ vaults[tx.vault].bump = FindBump(tx.caller)
               /\ CreateProgramAddress(tx.caller, vaults[tx.vault].bump) = tx.vault
               /\ vaults[tx.vault].domains_count = 0
               /\ \A v \in VaultKeys \ {tx.vault} : vaults[v] = snap[1][v]
               /\ ata = snap[2] /\ nameOwner = snap[3] /\ records = snap[4]

C13_Witness ==
    /\ C13_Pre /\ tx.caller = UserKey(1)
    /\ \E v \in VaultKeys \ {tx.vault} : vaults[v].domains_count = 1

(***************************************************************************)
(* C14 as stated: between operations domains_count of every vault equals   *)
(* the number of domain assets the vault holds: the mints of which its     *)
(* token account holds the unit plus the names whose registry owner it is. *)
(***************************************************************************)
Custody(v) ==
    Cardinality({m \in Mints : ata[<<m, v>>] > 0})
        + Cardinality({n \in Names : nameOwner[n] = v})

BetweenOperations == tx.pc \in {"idle", "done"}

StepCalls == <<"name_service::transfer", "sns_records::allocate_and_post_record",
               "sns_records::write_roa", "sns_records::validate_solana_signature">>
StepTags == <<2, 1, 6, 3>>

C15_Pre == tx.op = "deposit_domain_with_record"

C15_StepsInOrder ==
    C15_Pre => /\ Len(tx.calls) <= 4
               /\ \A k \in 1..Len(tx.calls) :
                     /\ tx.calls[k].ix = StepCalls[k]
                     /\ tx.calls[k].data[1] = StepTags[k]
                     /\ (k < Len(tx.calls) => tx.calls[k].ret = "Ok")
               /\ (Done /\ tx.err = "Ok" =>
                     Len(tx.calls) = 4 /\ tx.calls[4].ret = "Ok")
               /\ (Count(tx.vault) # PreVault.domains_count =>
                     /\ Len(tx.calls) = 4 /\ tx.calls[4].ret = "Ok"
                     /\ Count(tx.vault) = PreVault.domains_count + 1)

C15_Witness ==
    /\ C15_Pre /\ Done /\ tx.err = "Ok" /\ Len(tx.calls) = 4
    /\ Count(tx.vault) = 2 /\ PreVault.domains_count = 1

(***************************************************************************)
(* C16: in deposit_domain, withdraw_domain, deposit_unwrapped_domain,      *)
(* withdraw_unwrapped_domain and deposit_domain_with_record the guard on   *)
(* the vault (the address derives from the caller, the caller is the       *)
(* stored owner) is evaluated before any external call and before          *)
(* domains_count changes: an operation the guard rejects has issued no     *)
(* external call and has not changed domains_count.                        *)
(***************************************************************************)
GuardErrors == {"ConstraintSeeds", "UnauthorizedAccess"}

C16_Pre ==
    /\ tx.op \in DepositOps \cup WithdrawOps
    /\ tx.err \in GuardErrors

C16_GuardBeforeCalls ==
    C16_Pre => /\ tx.calls = <<>>
               /\ Count(tx.vault) = PreVault.domains_count

(***************************************************************************)
(* C17: while deposit_domain_with_record runs without error, the domain    *)
(* is owned by the vault after step 1; its record holds the vault address  *)
(* as content and is unset after step 2, is unverified-pending with the    *)
(* vault address as association id after step 3, and is verified after     *)
(* step 4 only.  When the operation has succeeded the content is the vault *)
(* address, the status verified and the registry owner the vault.          *)
(***************************************************************************)
C17_Pre ==
    /\ tx.op = "deposit_domain_with_record" /\ tx.err = "Ok"
    /\ PreVault.init

C17_RecordTransitions ==
    C17_Pre =>
        LET k == Len(tx.calls)
            r == records[tx.asset]
        IN /\ (k < 2 => r = snap[4][tx.asset])
           /\ (k >= 1 => nameOwner[tx.asset] = tx.vault)
           /\ (k >= 2 => r.exists /\ r.content = tx.vault)
           /\ (k = 2 => r.status = "unset")
           /\ (k = 3 => r.status = "unverified-pending" /\ r.roaId = tx.vault)
           /\ (k = 4 => r.status = "verified" /\ r.roaId = tx.vault)
           /\ (Done => k = 4)
           /\ tx.vault = FindProgramAddress(tx.caller)

C17_Witness ==
    /\ C17_Pre /\ Done
    /\ records[tx.asset].status = "verified" /\ records[tx.asset].content = tx.vault
    /\ nameOwner[tx.asset] = tx.vault /\ ~snap[4][tx.asset].exists

(***************************************************************************)
(* C18: in the custody call of deposit_domain and deposit_unwrapped_domain *)
(* the user is the only key presented as signer and the only key that      *)
(* signs, the vault does not sign, and the recipient / new owner is the    *)
(* vault.  In the call of withdraw_domain and withdraw_unwrapped_domain    *)
(* the vault is the only key presented as signer, it signs through the     *)
(* seeds (vault seed, owner key, stored bump), and the recipient / new     *)
(* owner is the user.  When the call succeeds the signer held the asset.   *)
(***************************************************************************)
PlainDeposits == {"deposit_domain", "deposit_unwrapped_domain"}

C18_Pre ==
    /\ tx.op \in PlainDeposits \cup WithdrawOps
    /\ HandlerCalls # <<>>

\* the recipient token account, or the new owner in the payload
C18_Recipient(k) ==
    IF tx.op \in TokenOps THEN k.accounts[3].pubkey
    ELSE FromBytes(SubSeq(k.data, 2, Len(k.data)))

C18_Names(key) ==
    IF tx.op \in TokenOps THEN TokenAccountKey(tx.asset, key) ELSE key

\* who held the asset when the operation started
C18_HeldBy(key) ==
    IF tx.op \in TokenOps THEN snap[2][<<tx.asset, key>>] = 1
    ELSE snap[3][tx.asset] = key

C18_HolderSigns ==
    C18_Pre =>
        LET k == HandlerCalls[1]
        IN /\ Len(HandlerCalls) = 1
           /\ (tx.op \in PlainDeposits =>
                 /\ SignerKeys(k) = {tx.caller}
                 /\ k.signers = {tx.caller}
                 /\ tx.vault \notin k.signers
                 /\ C18_Recipient(k) = C18_Names(tx.vault)
                 /\ (k.ret = "Ok" => C18_HeldBy(tx.caller)))
           /\ (tx.op \in WithdrawOps =>
                 /\ SignerKeys(k) = {tx.vault}
                 /\ k.signers = {tx.caller} \cup SignerSeeds(tx.caller, PreVault.bump)
                 /\ SignerSeeds(tx.caller, PreVault.bump) = {tx.vault}
                 /\ C18_Recipient(k) = C18_Names(tx.caller)
                 /\ (k.ret = "Ok" => C18_HeldBy(tx.vault)))

C18_Witness ==
    /\ C18_Pre /\ Done /\ tx.op = "withdraw_unwrapped_domain" /\ tx.err = "Ok"
    /\ HandlerCalls[1].ret = "Ok" /\ nameOwner[tx.asset] = tx.caller

(***************************************************************************)
(* C19: the account lists of the three records calls of                    *)
(* deposit_domain_with_record are, in this order: system program, name     *)
(* service program, fee payer (the user), record, domain, domain owner     *)
(* (the vault), central state, and for the validation the verifier (the    *)
(* vault again).  In steps 2 and 3 the user and the vault are the entries  *)
(* flagged as signers; in step 4 the vault is not flagged at the domain    *)
(* owner position and is flagged at the verifier position.                 *)
(***************************************************************************)
C19_Keys(a) == [j \in 1..Len(a) |-> a[j].pubkey]
C19_Flags(a) == [j \in 1..Len(a) |-> a[j].is_signer]

C19_Accounts ==
    <<SYSTEM_PROGRAM_ID, NAME_SERVICE_PROGRAM_ID, tx.caller,
      get_sol_record_v2_key(tx.asset), NameAccountKey(tx.asset), tx.vault,
      get_central_state_key>>

C19_Pre ==
    /\ tx.op = "deposit_domain_with_record"
    /\ Len(tx.calls) >= 2

C19_AccountLists ==
    C19_Pre =>
        /\ \A k \in 2..Len(tx.calls) :
              LET a == tx.calls[k].accounts
              IN IF k < 4
                 THEN /\ C19_Keys(a) = C19_Accounts
                      /\ C19_Flags(a) = <<FALSE, FALSE, TRUE, FALSE, FALSE, TRUE, FALSE>>
                 ELSE /\ C19_Keys(a) = Append(C19_Accounts, tx.vault)
                      /\ C19_Flags(a) =
                            <<FALSE, FALSE, TRUE, FALSE, FALSE, FALSE, FALSE, TRUE>>
                      /\ a[6].pubkey = a[8].pubkey
        /\ tx.vault = FindProgramAddress(tx.caller)

C19_Witness ==
    /\ C19_Pre /\ Done /\ tx.err = "Ok" /\ Len(tx.calls) = 4
    /\ tx.calls[4].ret = "Ok" /\ tx.caller = UserKey(2)

(***************************************************************************)
(* C20: the name service call of deposit_unwrapped_domain, of              *)
(* withdraw_unwrapped_domain and of step 1 of deposit_domain_with_record   *)
(* has a payload of 33 bytes, the byte 2 followed by the 32 bytes of the   *)
(* new owner: the vault for the deposits, the user for the withdrawal.     *)
(* Its accounts are the name account, writable and no signer, and the      *)
(* current owner as signer: the user for the deposits, the vault for the   *)
(* withdrawal.                                                             *)
(***************************************************************************)
RegistryOps == {"deposit_unwrapped_domain", "withdraw_unwrapped_domain",
                "deposit_domain_with_record"}

C20_Pre ==
    /\ tx.op \in RegistryOps
    /\ tx.calls # <<>>

C20_NewOwner == IF tx.op \in WithdrawOps THEN tx.caller ELSE tx.vault
C20_CurrentOwner == IF tx.op \in WithdrawOps THEN tx.vault ELSE tx.caller

C20_TransferPayload ==
    C20_Pre =>
        LET k == tx.calls[1]
        IN /\ k.ix = "name_service::transfer"
           /\ Len(k.data) = 33
           /\ k.data[1] = 2
           /\ SubSeq(k.data, 2, 33) = ToBytes(C20_NewOwner)
           /\ FromBytes(SubSeq(k.data, 2, 33)) = C20_NewOwner
           /\ Len(k.accounts) = 2
           /\ k.accounts[1].pubkey = NameAccountKey(tx.asset)
           /\ k.accounts[1].is_writable /\ ~k.accounts[1].is_signer
           /\ k.accounts[2].pubkey = C20_CurrentOwner
           /\ k.accounts[2].is_signer

C20_Witness ==
    /\ C20_Pre /\ Done /\ tx.op = "deposit_unwrapped_domain" /\ tx.err = "Ok"
    /\ tx.calls[1].ret = "Ok" /\ nameOwner[tx.asset] = tx.vault

(***************************************************************************)
(* C21: the payloads of the records calls of deposit_domain_with_record    *)
(* are, for every vault: step 2 the byte 1, the length 4 as four bytes     *)
(* little endian, the record name 0x02 'S' 'O' 'L', the length 32 as four  *)
(* bytes little endian and the 32 bytes of the vault address; step 3 the   *)
(* byte 6, the length 32 as four bytes little endian and the 32 bytes of   *)
(* the vault address; step 4 the byte 3 and the flag byte 1.               *)
(***************************************************************************)
C21_Pre ==
    /\ tx.op = "deposit_domain_with_record"
    /\ Len(tx.calls) >= 2

C21_Allocate == <<1, 4, 0, 0, 0, 2, 83, 79, 76, 32, 0, 0, 0>> \o ToBytes(tx.vault)
C21_WriteRoa == <<6, 32, 0, 0, 0>> \o ToBytes(tx.vault)
C21_Validate == <<3, 1>>

C21_RecordPayloads ==
    C21_Pre =>
        /\ tx.calls[2].data = C21_Allocate
        /\ Len(tx.calls[2].data) = 45
        /\ FromBytes(SubSeq(tx.calls[2].data, 14, 45)) = tx.vault
        /\ (Len(tx.calls) >= 3 =>
              /\ tx.calls[3].data = C21_WriteRoa
              /\ Len(tx.calls[3].data) = 37
              /\ FromBytes(SubSeq(tx.calls[3].data, 6, 37)) = tx.vault)
        /\ (Len(tx.calls) >= 4 => tx.calls[4].data = C21_Validate)

C21_Witness ==
    /\ C21_Pre /\ Done /\ tx.err = "Ok" /\ Len(tx.calls) = 4
    /\ tx.vault = FindProgramAddress(UserKey(2)) /\ records[tx.asset].content = tx.vault

(***************************************************************************)
(* C22: a successful deposit_domain moves exactly one unit (amount 1,      *)
(* decimals 0) of the mint from the token account associated with the mint *)
(* and the user to the one associated with the mint and the vault, a       *)
(* successful withdraw_domain moves one unit back; the units the two       *)
(* accounts hold together do not change.                                   *)
(***************************************************************************)
C22_Pre == Done /\ tx.err = "Ok" /\ tx.op \in {"deposit_domain", "withdraw_domain"}

\* the units of an account, an account that does not exist holding none
C22_Units(st, a) == IF st[a] = NoAccount THEN 0 ELSE st[a]

C22_From == IF tx.op = "deposit_domain" THEN tx.caller ELSE tx.vault
C22_To == IF tx.op = "deposit_domain" THEN tx.vault ELSE tx.caller

C22_OneUnitMoved ==
    C22_Pre =>
        LET k == HandlerCalls[1]
            from == <<tx.asset, C22_From>>
            to == <<tx.asset, C22_To>>
        IN /\ Len(HandlerCalls) = 1
           /\ k.ix = "transfer_checked" /\ k.ret = "Ok"
           /\ k.data = <<1, 0>>
           /\ k.accounts = <<[pubkey |-> TokenAccountKey(tx.asset, C22_From),
                               is_signer |-> FALSE, is_writable |-> TRUE],
                             [pubkey |-> MintKey(tx.asset),
                               is_signer |-> FALSE, is_writable |-> FALSE],
                             [pubkey |-> TokenAccountKey(tx.asset, C22_To),
                               is_signer |-> FALSE, is_writable |-> TRUE],
                             [pubkey |-> C22_From,
                               is_signer |-> TRUE, is_writable |-> FALSE]>>
           /\ ata[from] = C22_Units(snap[2], from) - 1
           /\ ata[to] = C22_Units(snap[2], to) + 1
           /\ ata[from] + ata[to] = C22_Units(snap[2], from) + C22_Units(snap[2], to)
           /\ \A a \in DOMAIN ata : a \notin {from, to} => ata[a] = snap[2][a]

C22_Witness ==
    /\ C22_Pre /\ tx.op = "withdraw_domain"
    /\ last.op = "deposit_domain" /\ last.vault = tx.vault
    /\ ata[<<tx.asset, tx.caller>>] = 1 /\ ata[<<tx.asset, tx.vault>>] = 0

(***************************************************************************)
(* C23: the operations on one vault take effect one after the other, each  *)
(* as one unit: while an operation runs no vault account is written by     *)
(* anything else (the count it reads is the count it increments), and the  *)
(* count after two successful deposits or withdrawals on the same vault is *)
(* the count before the first one changed by both, so that no update is    *)
(* lost and two successful deposits raise the count by 2.                  *)
(***************************************************************************)
C23_Delta(op) == IF op \in DepositOps THEN 1 ELSE -1

C23_Pre ==
    /\ Done /\ tx.err = "Ok" /\ tx.op \in DepositOps \cup WithdrawOps
    /\ last.op \in DepositOps \cup WithdrawOps /\ last.vault = tx.vault

C24_Step ==
    \A v \in VaultKeys :
        vaults[v].init =>
            /\ vaults'[v].init
            /\ vaults'[v].owner = vaults[v].owner
            /\ vaults'[v].bump = vaults[v].bump
            /\ (vaults'[v] # vaults[v] =>
                  /\ tx.op \in DepositOps \cup WithdrawOps /\ tx.vault = v
                  /\ vaults'[v] = [vaults[v] EXCEPT
                                      !.domains_count = vaults'[v].domains_count])

C24_VaultIdentityFrozen == [][C24_Step]_vars

C24_Witness ==
    /\ Done /\ tx.err = "Ok" /\ tx.op \in WithdrawOps
    /\ last.op \in DepositOps /\ last.vault = tx.vault
    /\ vaults[tx.vault].init /\ vaults[tx.vault].owner = tx.caller
    /\ vaults[tx.vault].bump = FindBump(tx.caller)
    /\ Count(tx.vault) # PreVault.domains_count

(***************************************************************************)
(* C25: a successful withdraw_unwrapped_domain issues exactly one call,    *)
(* the transfer at the name service, and leaves every record as it was;    *)
(* when it follows deposit_domain_with_record of the same domain into the  *)
(* same vault, the name is owned by the user again while its record still  *)
(* exists with the vault as content and as association id, verified, as    *)
(* the deposit wrote it: the withdrawal does not undo the record.          *)
(***************************************************************************)
C25_Pre == Done /\ tx.err = "Ok" /\ tx.op = "withdraw_unwrapped_domain"

C25_AfterRecordDeposit ==
    /\ last.op = "deposit_domain_with_record"
    /\ last.asset = tx.asset /\ last.vault = tx.vault

C25_RecordKept ==
    C25_Pre =>
        /\ Len(tx.calls) = 1
        /\ tx.calls[1].ix = "name_service::transfer" /\ tx.calls[1].ret = "Ok"
        /\ tx.calls[1].accounts[1].pubkey = NameAccountKey(tx.asset)
        /\ records = snap[4]
        /\ snap[3][tx.asset] = tx.vault
        /\ nameOwner[tx.asset] = tx.caller
        /\ (C25_AfterRecordDeposit =>
              /\ records[tx.asset] = [exists |-> TRUE, content |-> tx.vault,
                                       roaId |-> tx.vault, status |-> "verified"]
              /\ records[tx.asset] # NoRecord
              /\ nameOwner[tx.asset] # records[tx.asset].content)

C25_Witness ==
    /\ C25_Pre /\ C25_AfterRecordDeposit
    /\ nameOwner[tx.asset] = tx.caller /\ records[tx.asset].content = tx.vault

(***************************************************************************)
(* C26: the vaults of different owners are isolated: at every point of an  *)
(* operation a caller invokes, successful or failed and whichever vault it *)
(* names, every vault other than the one derived from the caller has the   *)
(* owner, bump and domains_count it had when the operation started, still  *)
(* owns every name it owned and still holds every unit it held.            *)
(***************************************************************************)
C26_Others == {v \in VaultKeys : v # FindProgramAddress(tx.caller)}

C26_Isolated ==
    tx.pc # "idle" =>
        \A v \in C26_Others :
            /\ vaults[v] = snap[1][v]
            /\ \A n \in Names : snap[3][n] = v => nameOwner[n] = v
            /\ \A m \in Mints : ata[<<m, v>>] = snap[2][<<m, v>>]

C26_Witness ==
    /\ Done /\ tx.err # "Ok" /\ tx.op \in WithdrawOps
    /\ tx.vault \in C26_Others
    /\ vaults[tx.vault].init /\ Count(tx.vault) > 0
    /\ \E n \in Names : nameOwner[n] = tx.vault

====
